---- MODULE Spec2Model ----
(***************************************************************************)
(* The 20-day high/low scanner of src/app.py as a state machine.           *)
(*                                                                         *)
(* The state is Streamlit's session_state (df, symbols, names and the      *)
(* three refresh stamps), the wall clock, and the locals of the handler    *)
(* that is running.  The two handlers that loop over the symbols with one  *)
(* download per symbol (analyze, and the new high/low check) advance one   *)
(* loop iteration per action; the quick refresh makes a single request and *)
(* is one action.                                                          *)
(*                                                                         *)
(* Numbers are prices in units of 0.005 USD ("ticks"): a value rounded to  *)
(* two decimals is an even number of ticks.  NaN (pandas' missing float,   *)
(* which is also what a None price becomes in the frame) is NaN below.     *)
(* Text that the code takes apart (tickers, price cells) is a sequence of   *)
(* one-character strings.                                                  *)
(***************************************************************************)
EXTENDS Integers, Sequences, FiniteSets, TLC

\* ---------------------------------------------------------------- bounds

\* Rows of the directory page in the response a Quick Refresh reads.
MaxRows == 2
\* Rows of the directory page in the response a Full Refresh reads: one more
\* than the cut-off of scrape_symbols, so that the cut-off leaves a row out.
MaxListed == 3
\* Daily bars in one download.
MaxBars == 2
\* Button clicks in one session (every click is at a later clock reading).
MaxClock == 3
\* Full refreshes in one session.
MaxFull == 1

\* The calendar day of the session, and the days a bar can be dated.
Today == 3
Days == 1 .. Today

\* Raw prices of the market data, in ticks.
RawPrices == {2, 5}

\* ------------------------------------------------------------- sentinels

NaN == -1
Never == 0
NoDate == 0
Unset == -1

\* ------------------------------------------------------------------ text

\* str.replace(old, "") for a one-character old.
RECURSIVE Remove(_, _)
Remove(s, old) ==
    IF s = <<>> THEN <<>>
    ELSE IF Head(s) = old THEN Remove(Tail(s), old)
    ELSE <<Head(s)>> \o Remove(Tail(s), old)

Digits == <<"0", "1", "2", "3", "4", "5", "6", "7", "8", "9">>

IsDigit(c) == \E d \in 1 .. 10 : Digits[d] = c

DigitVal(c) == (CHOOSE d \in 1 .. 10 : Digits[d] = c) - 1

RECURSIVE DecimalValue(_)
DecimalValue(s) ==
    IF s = <<>> THEN 0
    ELSE 10 * DecimalValue(SubSeq(s, 1, Len(s) - 1)) + DigitVal(s[Len(s)])

\* float(text), in ticks, for text of digits with at most one point and at most
\* two decimals; NaN stands for the ValueError float raises on anything else
\* made of the characters of PriceTexts.
FloatOf(s) ==
    LET points == {i \in 1 .. Len(s) : s[i] = "."}
        p == IF points = {} THEN Len(s) + 1 ELSE CHOOSE i \in points : TRUE
        whole == SubSeq(s, 1, p - 1)
        frac == SubSeq(s, p + 1, Len(s))
        cents == IF Len(frac) = 0 THEN 0
                 ELSE IF Len(frac) = 1 THEN 10 * DigitVal(frac[1])
                 ELSE 10 * DigitVal(frac[1]) + DigitVal(frac[2])
    IN  IF /\ Cardinality(points) <= 1
           /\ Len(whole) + Len(frac) >= 1
           /\ \A i \in 1 .. Len(s) : i \in points \/ IsDigit(s[i])
        THEN 2 * (100 * DecimalValue(whole) + cents)
        ELSE NaN

\* --------------------------------------------------------- the directory

\* The cut-off of scrape_symbols ("only top 100"), scaled to the page size.
TopN == 2

\* A listed company: its ticker and its name as the directory prints them.
Companies == {
    [code |-> <<"A">>, name |-> "Alpha"],
    [code |-> <<"B", ".", "B">>, name |-> "Beta"] }

Tickers == {c.code : c \in Companies}

\* What select_one gives: no tag, or a tag with its text.
NoTag == <<>>
Tag(text) == <<text>>
TextOf(tag) == tag[1]

\* The text of the price cell, cols[4].
PriceTexts == {
    <<"$", "0", ".", "0", "1">>,
    <<"$", "1", ",", "0", "0", "0", ".", "0", "0">>,
    <<"N", "/", "A">> }

\* The <td> cells of a row, as their texts: the four cells before the price
\* cell and the price cell, or a row that ends before it.
ShortCols == <<<<>>, <<>>, <<>>, <<>>>>
ColsOf(text) == ShortCols \o <<text>>

\* A table row as scrape_symbols reads it: div.company-name, div.company-code.
\* A row of a company carries that company's name and ticker, when it carries
\* them.
ListingRows ==
    UNION {{[name |-> n, code |-> s] :
                n \in {NoTag, Tag(c.name)}, s \in {NoTag, Tag(c.code)}} :
           c \in Companies}

\* A table row as the quick refresh reads it: div.company-code and the cells.
PriceRows ==
    {[code |-> s, cols |-> cs] :
        s \in {NoTag} \cup {Tag(t) : t \in Tickers},
        cs \in {ShortCols} \cup {ColsOf(t) : t \in PriceTexts}}

SeqsUpTo(S, n) == UNION {[1 .. k -> S] : k \in 0 .. n}

ListingPages == SeqsUpTo(ListingRows, MaxListed)
PricePages == SeqsUpTo(PriceRows, MaxRows)

\* ------------------------------------------------------- the market data

\* One daily bar; the provider's bars have low <= close <= high.
Bars ==
    {b \in [date : Days, High : RawPrices, Low : RawPrices, Close : RawPrices] :
        b.Low <= b.Close /\ b.Close <= b.High}

\* A download's frame: bars in ascending date order, possibly none.
Frames ==
    {s \in SeqsUpTo(Bars, MaxBars) :
        \A i \in 1 .. Len(s) - 1 : s[i].date < s[i + 1].date}

\* What yf.download does: it raises, or it returns a frame.
Downloads == {[raised |-> TRUE, data |-> <<>>]}
                \cup {[raised |-> FALSE, data |-> f] : f \in Frames}

\* ------------------------------------------------------------ scraping

\* scrape_symbols' loop over the rows, from the lists built so far: a row
\* without a name tag or without a symbol tag is passed over, and the loop
\* ends once TopN names are held.
RECURSIVE ScrapeLoop(_, _, _)
ScrapeLoop(rows, syms, nms) ==
    IF rows = <<>> THEN <<syms, nms>>
    ELSE LET row == Head(rows)
         IN  IF row.name = NoTag \/ row.code = NoTag
             THEN ScrapeLoop(Tail(rows), syms, nms)
             ELSE LET nms2 == Append(nms, TextOf(row.name))
                      syms2 == Append(syms, TextOf(row.code))
                  IN  IF Len(nms2) = TopN THEN <<syms2, nms2>>
                      ELSE ScrapeLoop(Tail(rows), syms2, nms2)

\* A variant of the loop that appends the name before it looks for the symbol
\* tag, so that a row with a name and no symbol shifts the names.
RECURSIVE ScrapeLoopNameFirst(_, _, _)
ScrapeLoopNameFirst(rows, syms, nms) ==
    IF rows = <<>> \/ Len(nms) = TopN THEN <<syms, nms>>
    ELSE LET row == Head(rows)
         IN  IF row.name = NoTag
             THEN ScrapeLoopNameFirst(Tail(rows), syms, nms)
             ELSE IF row.code = NoTag
             THEN ScrapeLoopNameFirst(Tail(rows), syms, Append(nms, TextOf(row.name)))
             ELSE ScrapeLoopNameFirst(Tail(rows), Append(syms, TextOf(row.code)),
                                      Append(nms, TextOf(row.name)))

scrape_symbols_name_first(rows) == ScrapeLoopNameFirst(rows, <<>>, <<>>)

\* A variant of the loop without the cut-off.
RECURSIVE ScrapeLoopNoCutOff(_, _, _)
ScrapeLoopNoCutOff(rows, syms, nms) ==
    IF rows = <<>> THEN <<syms, nms>>
    ELSE LET row == Head(rows)
         IN  IF row.name = NoTag \/ row.code = NoTag
             THEN ScrapeLoopNoCutOff(Tail(rows), syms, nms)
             ELSE ScrapeLoopNoCutOff(Tail(rows), Append(syms, TextOf(row.code)),
                                     Append(nms, TextOf(row.name)))

scrape_symbols_no_cut_off(rows) == ScrapeLoopNoCutOff(rows, <<>>, <<>>)

\* scrape_symbols(): <<symbols, names>>.
scrape_symbols(rows) == ScrapeLoop(rows, <<>>, <<>>)

\* ------------------------------------------------------------- analysis

\* round(2) of one value: to the nearest even number of ticks, a half going
\* to the even cent.
Round2(x) ==
    IF x % 2 = 0 THEN x
    ELSE IF ((x - 1) \div 2) % 2 = 0 THEN x - 1 ELSE x + 1

\* data.round(2)
RoundFrame(data) ==
    [i \in 1 .. Len(data) |->
        [date |-> data[i].date, High |-> Round2(data[i].High),
         Low |-> Round2(data[i].Low), Close |-> Round2(data[i].Close)]]

\* A variant that keeps today's bar.
KeepToday(data) == data

\* data.iloc[:-1] when the last bar is dated today.
DropToday(data) ==
    IF data[Len(data)].date = Today THEN SubSeq(data, 1, Len(data) - 1) ELSE data

\* data["High"].max(), data["Low"].min() of a frame with rows.
ColumnMax(data) ==
    CHOOSE v \in {data[i].High : i \in 1 .. Len(data)} :
        \A i \in 1 .. Len(data) : data[i].High <= v
ColumnMin(data) ==
    CHOOSE v \in {data[i].Low : i \in 1 .. Len(data)} :
        \A i \in 1 .. Len(data) : v <= data[i].Low

\* A variant of the loop body that appends the low in the high's column and
\* the high in the low's.
AnalyzeOneSwapped(ticker, name, dl) ==
    IF dl.raised \/ dl.data = <<>> THEN [appended |-> FALSE]
    ELSE LET data == DropToday(RoundFrame(dl.data))
         IN  IF data = <<>> THEN [appended |-> FALSE]
             ELSE [appended |-> TRUE,
                   row |-> [Ticker |-> ticker, Name |-> name,
                            CurrentPrice |-> data[Len(data)].Close,
                            High20D |-> ColumnMin(data),
                            Low20D |-> ColumnMax(data)],
                   last_date |-> data[Len(data)].date]

\* A variant of the loop body that takes the price from the last bar returned,
\* today's included, and the extremes from the window without today's bar.
AnalyzeOnePriceOfToday(ticker, name, dl) ==
    IF dl.raised \/ dl.data = <<>> THEN [appended |-> FALSE]
    ELSE LET all == RoundFrame(dl.data)
             data == DropToday(all)
         IN  IF data = <<>> THEN [appended |-> FALSE]
             ELSE [appended |-> TRUE,
                   row |-> [Ticker |-> ticker, Name |-> name,
                            CurrentPrice |-> all[Len(all)].Close,
                            High20D |-> ColumnMax(data),
                            Low20D |-> ColumnMin(data)],
                   last_date |-> data[Len(data)].date]

\* The body of analyze's loop for one ticker and what its download gave:
\* whether a row is appended (not when the download raises, when the frame is
\* empty, or when Close.iloc[-1] of the frame left after dropping today's bar
\* raises IndexError), and the row and the frame's last date when it is.
AnalyzeOne(ticker, name, dl) ==
    IF dl.raised \/ dl.data = <<>> THEN [appended |-> FALSE]
    ELSE LET data == DropToday(RoundFrame(dl.data))
         IN  IF data = <<>> THEN [appended |-> FALSE]
             ELSE [appended |-> TRUE,
                   row |-> [Ticker |-> ticker, Name |-> name,
                            CurrentPrice |-> data[Len(data)].Close,
                            High20D |-> ColumnMax(data),
                            Low20D |-> ColumnMin(data)],
                   last_date |-> data[Len(data)].date]

\* How a download ended, for the record of the run.
Outcome(dl) ==
    IF dl.raised THEN "raised"
    ELSE IF dl.data = <<>> THEN "empty"
    ELSE IF dl.data[Len(dl.data)].date # Today THEN "bars"
    ELSE IF Len(dl.data) = 1 THEN "only_today"
    ELSE "bars_and_today"

\* The dates of the bars a download returned, data.index, none when it raised.
DatesOf(dl) ==
    IF dl.raised THEN <<>> ELSE [i \in 1 .. Len(dl.data) |-> dl.data[i].date]

\* ------------------------------------------------------- quick refresh

\* price_map[sym] = value: a dict keeps a key where it was first inserted.
DictSet(d, key, value) ==
    IF \E i \in 1 .. Len(d) : d[i].key = key
    THEN [i \in 1 .. Len(d) |->
            IF d[i].key = key THEN [key |-> key, value |-> value] ELSE d[i]]
    ELSE Append(d, [key |-> key, value |-> value])

DictHas(d, key) == \E i \in 1 .. Len(d) : d[i].key = key

DictGet(d, key) == d[CHOOSE i \in 1 .. Len(d) : d[i].key = key].value

\* The price text of a row: cols[4] without "$" and ",".
price_str(row) == Remove(Remove(row.cols[5], "$"), ",")

\* The quick refresh's loop over the rows: price_map.
RECURSIVE BuildPriceMap(_, _)
BuildPriceMap(rows, price_map) ==
    IF rows = <<>> THEN price_map
    ELSE LET row == Head(rows)
         IN  IF row.code = NoTag \/ Len(row.cols) < 5
             THEN BuildPriceMap(Tail(rows), price_map)
             ELSE BuildPriceMap(Tail(rows),
                    DictSet(price_map, TextOf(row.code), FloatOf(price_str(row))))

\* A variant that merges as an inner join: a row whose ticker is no key of the
\* dict is dropped.
MapPricesInner(frame, price_map) ==
    LET kept == {i \in 1 .. Len(frame) : DictHas(price_map, frame[i].Ticker)}
        nth(n) == CHOOSE i \in kept : Cardinality({j \in kept : j <= i}) = n
    IN  [n \in 1 .. Cardinality(kept) |->
            [frame[nth(n)] EXCEPT
                !.CurrentPrice = DictGet(price_map, frame[nth(n)].Ticker)]]

\* A variant that merges by position: the i-th row gets the i-th price scraped.
MapPricesByPosition(frame, price_map) ==
    [i \in 1 .. Len(frame) |->
        [frame[i] EXCEPT !.CurrentPrice =
            IF i <= Len(price_map) THEN price_map[i].value ELSE NaN]]

\* df["Current Price"] = df["Ticker"].map(price_map): a ticker that is no key
\* of the dict maps to NaN, and so does a None.
MapPrices(frame, price_map) ==
    [i \in 1 .. Len(frame) |->
        [frame[i] EXCEPT !.CurrentPrice =
            IF DictHas(price_map, frame[i].Ticker)
            THEN DictGet(price_map, frame[i].Ticker)
            ELSE NaN]]

\* ------------------------------------------------------------ breakouts

\* a > b and a < b of floats: a comparison with NaN is false.
Gt(a, b) == a # NaN /\ b # NaN /\ a > b
Lt(a, b) == a # NaN /\ b # NaN /\ a < b

\* A variant of the below-low mask with its operands the other way round.
IsBelowFlipped(r) == Lt(r.Low20D, r.CurrentPrice)

\* A variant of the above-high mask that takes a price equal to the high.
IsAboveOrEqual(r) == r.CurrentPrice # NaN /\ r.CurrentPrice >= r.High20D

IsAbove(r) == Gt(r.CurrentPrice, r.High20D)
IsBelow(r) == Lt(r.CurrentPrice, r.Low20D)

\* df[mask]: the rows the mask keeps, in the frame's order.
above_high_df(frame) == SelectSeq(frame, IsAbove)
below_low_df(frame) == SelectSeq(frame, IsBelow)

\* -------------------------------------------------- new high/low check

\* The days of the check's download period, "2d".
ShortPeriod == 2

\* What the check's download can give: at most ShortPeriod bars.
ShortDownloads == {dl \in Downloads : Len(dl.data) <= ShortPeriod}

\* df.loc[df["Ticker"] == ticker, column].values: the rows of that ticker.
RowsOf(frame, ticker) == {i \in 1 .. Len(frame) : frame[i].Ticker = ticker}

\* data.iloc[-1] of the check's download, its high and low: none when the
\* download raised or returned no bar.
LatestBar(dl) ==
    IF dl.raised \/ dl.data = <<>> THEN <<>>
    ELSE <<[High |-> dl.data[Len(dl.data)].High, Low |-> dl.data[Len(dl.data)].Low]>>

\* .values[0]: the first of them.
FirstRowOf(frame, ticker) ==
    CHOOSE i \in RowsOf(frame, ticker) : \A j \in RowsOf(frame, ticker) : i <= j

\* A variant of the loop body whose low test is the other way round.
CheckOneLowFlipped(frame, ticker, name, dl) ==
    IF dl.raised \/ dl.data = <<>> \/ RowsOf(frame, ticker) = {}
    THEN [high |-> <<>>, low |-> <<>>]
    ELSE LET last_row == dl.data[Len(dl.data)]
             prev_high == frame[FirstRowOf(frame, ticker)].High20D
             prev_low == frame[FirstRowOf(frame, ticker)].Low20D
         IN  [high |-> IF Gt(last_row.High, prev_high)
                       THEN <<[Ticker |-> ticker, Name |-> name,
                               Today |-> last_row.High, Previous |-> prev_high]>>
                       ELSE <<>>,
              low |-> IF Gt(last_row.Low, prev_low)
                      THEN <<[Ticker |-> ticker, Name |-> name,
                              Today |-> last_row.Low, Previous |-> prev_low]>>
                      ELSE <<>>]

\* A variant of the loop body that compares with the record's current price
\* in place of the stored extremes.
CheckOneAgainstPrice(frame, ticker, name, dl) ==
    IF dl.raised \/ dl.data = <<>> \/ RowsOf(frame, ticker) = {}
    THEN [high |-> <<>>, low |-> <<>>]
    ELSE LET last_row == dl.data[Len(dl.data)]
             price == frame[FirstRowOf(frame, ticker)].CurrentPrice
         IN  [high |-> IF Gt(last_row.High, price)
                       THEN <<[Ticker |-> ticker, Name |-> name,
                               Today |-> last_row.High, Previous |-> price]>>
                       ELSE <<>>,
              low |-> IF Lt(last_row.Low, price)
                      THEN <<[Ticker |-> ticker, Name |-> name,
                              Today |-> last_row.Low, Previous |-> price]>>
                      ELSE <<>>]

\* The body of the check's loop for one ticker and what its download gave:
\* the rows it appends to new_high_rows and to new_low_rows.  Nothing is
\* appended when the download raises or is empty, nor when the frame holds no
\* row of the ticker (.values[0] raises IndexError).
CheckOne(frame, ticker, name, dl) ==
    IF dl.raised \/ dl.data = <<>> \/ RowsOf(frame, ticker) = {}
    THEN [high |-> <<>>, low |-> <<>>]
    ELSE LET last_row == dl.data[Len(dl.data)]
             today_high == last_row.High
             today_low == last_row.Low
             prev_high == frame[FirstRowOf(frame, ticker)].High20D
             prev_low == frame[FirstRowOf(frame, ticker)].Low20D
         IN  [high |-> IF Gt(today_high, prev_high)
                       THEN <<[Ticker |-> ticker, Name |-> name,
                               Today |-> today_high, Previous |-> prev_high]>>
                       ELSE <<>>,
              low |-> IF Lt(today_low, prev_low)
                      THEN <<[Ticker |-> ticker, Name |-> name,
                              Today |-> today_low, Previous |-> prev_low]>>
                      ELSE <<>>]

\* ------------------------------------------------------------ the state

VARIABLES
    df,                  \* session_state.df, as the list of its rows
    symbols,             \* session_state.symbols
    names,               \* session_state.names
    last_full_refresh,   \* session_state.last_full_refresh
    last_quick_refresh,  \* session_state.last_quick_refresh
    latest_data_date,    \* session_state.latest_data_date
    now,                 \* datetime.now(), in clock readings
    fulls,               \* the full refreshes started so far
    op,                  \* the button of the current script run and its branch
    pc,                  \* where the script run is: idle when it has ended
    rows,                \* the table rows of the handler's request
    idx,                 \* the loop index of analyze or of the check
    results,             \* analyze's results
    latest_date,         \* analyze's latest_date
    fetched,             \* how each download of analyze ended, in loop order
    price_map,           \* the quick refresh's price_map
    new_high_rows,       \* the check's new_high_rows
    new_low_rows,        \* the check's new_low_rows
    checked,             \* the latest bar of each download of the check, in loop order
    fetched_dates,       \* the bar dates of each download of analyze, in loop order
    above_high,          \* the rows of above_high_df of this script run
    below_low            \* the rows of below_low_df of this script run

session == <<df, symbols, names, last_full_refresh, last_quick_refresh,
             latest_data_date>>
locals == <<rows, idx, results, latest_date, fetched, price_map, new_high_rows,
            new_low_rows, checked, fetched_dates, above_high, below_low>>
vars == <<session, now, fulls, op, pc, locals>>

\* The locals of a script run that has not set them.
FreshLocals ==
    /\ rows' = <<>>
    /\ idx' = 1
    /\ results' = <<>>
    /\ latest_date' = NoDate
    /\ fetched' = <<>>
    /\ price_map' = <<>>
    /\ new_high_rows' = <<>>
    /\ new_low_rows' = <<>>
    /\ checked' = <<>>
    /\ fetched_dates' = <<>>
    /\ above_high' = <<>>
    /\ below_low' = <<>>

\* A click reruns the script at a later clock reading.
Click(button) ==
    /\ pc = "idle"
    /\ now < MaxClock
    /\ now' = now + 1
    /\ op' = button

\* The tables of the script run, lines 124-130: they are built on every run
\* whose frame has rows, after the refresh handlers and before the check.
ShowFilteredData(frame) ==
    /\ above_high' = IF frame = <<>> THEN <<>> ELSE above_high_df(frame)
    /\ below_low' = IF frame = <<>> THEN <<>> ELSE below_low_df(frame)

Init ==
    /\ df = <<>>
    /\ symbols = <<>>
    /\ names = <<>>
    /\ last_full_refresh = Never
    /\ last_quick_refresh = Never
    /\ latest_data_date = Unset
    /\ now = 0
    /\ fulls = 0
    /\ op = "none"
    /\ pc = "idle"
    /\ rows = <<>>
    /\ idx = 1
    /\ results = <<>>
    /\ latest_date = NoDate
    /\ fetched = <<>>
    /\ price_map = <<>>
    /\ new_high_rows = <<>>
    /\ new_low_rows = <<>>
    /\ checked = <<>>
    /\ fetched_dates = <<>>
    /\ above_high = <<>>
    /\ below_low = <<>>

\* ---------------------------------------------------------- full refresh

\* The Full Refresh button, to the call of analyze: the scraped lists are
\* stored.
FullRefresh ==
    \E page \in ListingPages :
        /\ Click("full")
        /\ fulls < MaxFull
        /\ fulls' = fulls + 1
        /\ rows' = page
        /\ symbols' = scrape_symbols(page)[1]
        /\ names' = scrape_symbols(page)[2]
        /\ pc' = "analyze"
        /\ UNCHANGED <<df, last_full_refresh, last_quick_refresh, latest_data_date,
                       idx, results, latest_date, fetched, price_map,
                       new_high_rows, new_low_rows, checked, fetched_dates,
                       above_high, below_low>>

\* A variant of the iteration in which the date of the row appended last
\* replaces latest_date, later or not.
AnalyzeStepLastWins ==
    \E dl \in Downloads :
        /\ pc = "analyze"
        /\ idx <= Len(symbols)
        /\ LET one == AnalyzeOne(symbols[idx], names[idx], dl)
           IN  /\ results' = IF one.appended THEN Append(results, one.row)
                             ELSE results
               /\ latest_date' = IF one.appended THEN one.last_date ELSE latest_date
        /\ fetched' = Append(fetched, Outcome(dl))
        /\ fetched_dates' = Append(fetched_dates, DatesOf(dl))
        /\ idx' = idx + 1
        /\ UNCHANGED <<session, now, fulls, op, pc, rows, price_map,
                       new_high_rows, new_low_rows, checked, above_high, below_low>>

\* One iteration of analyze's loop: the download of the ticker can end in any
\* way, whatever the ticker.
AnalyzeStep ==
    \E dl \in Downloads :
        /\ pc = "analyze"
        /\ idx <= Len(symbols)
        /\ LET one == AnalyzeOne(symbols[idx], names[idx], dl)
           IN  /\ results' = IF one.appended THEN Append(results, one.row)
                             ELSE results
               /\ latest_date' =
                    IF one.appended /\ (latest_date = NoDate \/ one.last_date > latest_date)
                    THEN one.last_date ELSE latest_date
        /\ fetched' = Append(fetched, Outcome(dl))
        /\ fetched_dates' = Append(fetched_dates, DatesOf(dl))
        /\ idx' = idx + 1
        /\ UNCHANGED <<session, now, fulls, op, pc, rows, price_map,
                       new_high_rows, new_low_rows, checked, above_high, below_low>>

\* analyze returns: the frame, the stamp and the data date are stored.
AnalyzeReturn ==
    /\ pc = "analyze"
    /\ idx > Len(symbols)
    /\ df' = results
    /\ last_full_refresh' = now
    /\ latest_data_date' = latest_date
    /\ ShowFilteredData(df')
    /\ pc' = "done"
    /\ UNCHANGED <<symbols, names, last_quick_refresh, now, fulls, op, rows, idx,
                   results, latest_date, fetched, price_map, new_high_rows,
                   new_low_rows, checked, fetched_dates>>

\* --------------------------------------------------------- quick refresh

\* The Quick Refresh button with symbols held.
QuickRefresh ==
    \E page \in PricePages :
        /\ Click("quick")
        /\ symbols # <<>>
        /\ rows' = page
        /\ price_map' = BuildPriceMap(page, <<>>)
        /\ df' = MapPrices(df, price_map')
        /\ last_quick_refresh' = now'
        /\ ShowFilteredData(df')
        /\ pc' = "done"
        /\ UNCHANGED <<symbols, names, last_full_refresh, latest_data_date, fulls,
                       idx, results, latest_date, fetched, new_high_rows,
                       new_low_rows, checked, fetched_dates>>

\* A variant of the warning branch that stamps the quick refresh all the same.
QuickRefreshWarningStamped ==
    /\ Click("quick_warning")
    /\ symbols = <<>>
    /\ last_quick_refresh' = now'
    /\ ShowFilteredData(df)
    /\ pc' = "done"
    /\ UNCHANGED <<df, symbols, names, last_full_refresh, latest_data_date, fulls,
                   rows, idx, results, latest_date, fetched, price_map,
                   new_high_rows, new_low_rows, checked, fetched_dates>>

\* The Quick Refresh button with no symbols: the warning.
QuickRefreshWarning ==
    /\ Click("quick_warning")
    /\ symbols = <<>>
    /\ ShowFilteredData(df)
    /\ pc' = "done"
    /\ UNCHANGED <<session, fulls, rows, idx, results, latest_date, fetched,
                   price_map, new_high_rows, new_low_rows, checked, fetched_dates>>

\* ------------------------------------------------------------ the check

\* The Check New High/Low button with symbols held, to the loop.
CheckNewHighLow ==
    /\ Click("check")
    /\ symbols # <<>>
    /\ ShowFilteredData(df)
    /\ pc' = "check"
    /\ UNCHANGED <<session, fulls, rows, idx, results, latest_date, fetched,
                   price_map, new_high_rows, new_low_rows, checked, fetched_dates>>

\* A variant of the iteration that rolls the stored high forward to a new high.
CheckStepRolling ==
    \E dl \in ShortDownloads :
        /\ pc = "check"
        /\ idx <= Len(symbols)
        /\ LET one == CheckOne(df, symbols[idx], names[idx], dl)
           IN  /\ new_high_rows' = new_high_rows \o one.high
               /\ new_low_rows' = new_low_rows \o one.low
               /\ df' = IF one.high = <<>> THEN df
                        ELSE [df EXCEPT ![FirstRowOf(df, symbols[idx])].High20D =
                                            one.high[1].Today]
        /\ checked' = Append(checked, LatestBar(dl))
        /\ idx' = idx + 1
        /\ UNCHANGED <<symbols, names, last_full_refresh, last_quick_refresh,
                       latest_data_date, now, fulls, op, pc, rows, results,
                       latest_date, fetched, price_map, fetched_dates,
                       above_high, below_low>>

\* One iteration of the check's loop.
CheckStep ==
    \E dl \in ShortDownloads :
        /\ pc = "check"
        /\ idx <= Len(symbols)
        /\ LET one == CheckOne(df, symbols[idx], names[idx], dl)
           IN  /\ new_high_rows' = new_high_rows \o one.high
               /\ new_low_rows' = new_low_rows \o one.low
        /\ checked' = Append(checked, LatestBar(dl))
        /\ idx' = idx + 1
        /\ UNCHANGED <<session, now, fulls, op, pc, rows, results, latest_date,
                       fetched, price_map, fetched_dates, above_high, below_low>>

\* The loop has ended: the two tables are shown.
CheckReturn ==
    /\ pc = "check"
    /\ idx > Len(symbols)
    /\ pc' = "done"
    /\ UNCHANGED <<session, now, fulls, op, locals>>

\* The Check New High/Low button with no symbols: the warning.
CheckWarning ==
    /\ Click("check_warning")
    /\ symbols = <<>>
    /\ ShowFilteredData(df)
    /\ pc' = "done"
    /\ UNCHANGED <<session, fulls, rows, idx, results, latest_date, fetched,
                   price_map, new_high_rows, new_low_rows, checked, fetched_dates>>

\* The script run ends: its locals are gone, session_state stays.
ScriptEnd ==
    /\ pc = "done"
    /\ pc' = "idle"
    /\ FreshLocals
    /\ UNCHANGED <<session, now, fulls, op>>

Next ==
    \/ FullRefresh
    \/ AnalyzeStep
    \/ AnalyzeReturn
    \/ QuickRefresh
    \/ QuickRefreshWarning
    \/ CheckNewHighLow
    \/ CheckStep
    \/ CheckReturn
    \/ CheckWarning
    \/ ScriptEnd

Spec == Init /\ [][Next]_vars

\* ------------------------------------------------- an interrupted refresh

\* analyze is stopped inside its loop.  The handler of line 70 calls st.warning
\* when the try block raised (the download raised, or Close.iloc[-1] of a frame
\* that held only today's bar); a Streamlit command is where a pending stop or
\* rerun request (another click, the Stop button) ends the script run, with an
\* exception that "except Exception" does not catch.  What line 92 stored
\* stays in session_state; lines 93-95 are not reached.
AnalyzeInterrupted ==
    \E dl \in Downloads :
        /\ pc = "analyze"
        /\ idx <= Len(symbols)
        /\ Outcome(dl) \in {"raised", "only_today"}
        /\ pc' = "idle"
        /\ FreshLocals
        /\ UNCHANGED <<session, now, fulls, op>>

NextInterrupted ==
    \/ Next
    \/ AnalyzeInterrupted

\* The script with runs that can be stopped.
SpecInterrupted == Init /\ [][NextInterrupted]_vars

\* ------------------------------------------------------------ the claims

\* The step that handles a click on Quick Refresh, whichever branch it takes.
QuickRefreshStep == pc = "idle" /\ op' \in {"quick", "quick_warning"}

\* A step of the new high/low check.
CheckStepTaken == pc = "check" \/ (pc = "idle" /\ op' \in {"check", "check_warning"})

AfterFullRefresh == pc = "done" /\ op = "full"
AfterQuickRefresh == pc = "done" /\ op = "quick"
AfterCheck == pc = "done" /\ op = "check"

\* The rows of a price page that quote a price for a ticker, and the price
\* the last of them quotes.
QuotingRows(page, ticker) ==
    {k \in 1 .. Len(page) : page[k].code = Tag(ticker) /\ Len(page[k].cols) >= 5}
QuotedPrice(page, ticker) ==
    LET k == CHOOSE q \in QuotingRows(page, ticker) :
                \A r \in QuotingRows(page, ticker) : r <= q
    IN  FloatOf(price_str(page[k]))

\* The elements of a sequence at the positions that satisfy a test, in order.
RECURSIVE TickersAt(_, _, _)
TickersAt(syms, kinds, wanted) ==
    IF syms = <<>> THEN <<>>
    ELSE (IF Head(kinds) \in wanted THEN <<Head(syms)>> ELSE <<>>)
            \o TickersAt(Tail(syms), Tail(kinds), wanted)

TickerColumn(frame) == [i \in 1 .. Len(frame) |-> frame[i].Ticker]

\* C1, as claimed: a Quick Refresh leaves the price of every record whose
\* symbol is no key of the scraped mapping as it was.
C1_AbsentSymbolsKeepPrice ==
    [][(pc = "idle" /\ op' = "quick") =>
        /\ Len(df') = Len(df)
        /\ \A i \in 1 .. Len(df) :
              ~DictHas(price_map', df[i].Ticker)
                  => df'[i].CurrentPrice = df[i].CurrentPrice]_vars

\* C2: a click on Quick Refresh, served or refused, leaves the records, their
\* order and each record's symbol, name, high20 and low20 as they were.
C2_QuickKeepsHighLow ==
    [][QuickRefreshStep =>
        /\ Len(df') = Len(df)
        /\ \A i \in 1 .. Len(df) :
              /\ df'[i].Ticker = df[i].Ticker
              /\ df'[i].Name = df[i].Name
              /\ df'[i].High20D = df[i].High20D
              /\ df'[i].Low20D = df[i].Low20D]_vars

\* A Quick Refresh has moved a price above the stored high of a two-record
\* snapshot whose extremes differ.
C2_Witness ==
    /\ AfterQuickRefresh
    /\ Len(df) = 2
    /\ \E i \in 1 .. 2 : IsAbove(df[i])
    /\ \E i \in 1 .. 2 : df[i].High20D > df[i].Low20D

\* C3, as claimed: a click on Quick Refresh while the snapshot is empty ends
\* in the warning and leaves the session state, last_quick_refresh included,
\* as it was.
C3_EmptySnapshotQuickRefused ==
    [][(QuickRefreshStep /\ df = <<>>) =>
        /\ op' = "quick_warning"
        /\ UNCHANGED session]_vars

\* C4: after a Quick Refresh every record whose symbol a row of the response
\* quotes holds the price that the response quotes for that symbol (NaN when
\* the text is no number), wherever the row stands in the response.
C4_QuickMergesBySymbol ==
    AfterQuickRefresh =>
        \A i \in 1 .. Len(df) :
            QuotingRows(rows, df[i].Ticker) # {}
                => df[i].CurrentPrice = QuotedPrice(rows, df[i].Ticker)

\* The response lists the two records' symbols in the opposite order, with
\* different prices, and each record holds its own.
C4_Witness ==
    /\ AfterQuickRefresh
    /\ Len(df) = 2 /\ Len(rows) = 2
    /\ df[1].Ticker # df[2].Ticker
    /\ rows[1].code = Tag(df[2].Ticker)
    /\ rows[2].code = Tag(df[1].Ticker)
    /\ df[1].CurrentPrice # NaN /\ df[2].CurrentPrice # NaN
    /\ df[1].CurrentPrice # df[2].CurrentPrice

\* C5: after a Full Refresh every record's symbol is one the directory
\* returned, and its name is the name of a row that carries that symbol.
C5_RecordsMatchDirectory ==
    AfterFullRefresh =>
        \A i \in 1 .. Len(df) :
            \E k \in 1 .. Len(rows) :
                /\ rows[k].code = Tag(df[i].Ticker)
                /\ rows[k].name = Tag(df[i].Name)

\* The first of two different symbols was skipped and the second recorded.
C5_Witness ==
    /\ AfterFullRefresh
    /\ Len(symbols) = 2 /\ symbols[1] # symbols[2]
    /\ fetched[1] \in {"raised", "empty"}
    /\ Len(df) = 1 /\ df[1].Ticker = symbols[2]

\* C6, as claimed: the committed snapshot holds, in directory order, a record
\* for exactly the symbols whose download returned a series with bars.
C6_EveryNonEmptySeriesRecorded ==
    AfterFullRefresh =>
        /\ Len(fetched) = Len(symbols)
        /\ TickerColumn(df) =
              TickersAt(symbols, fetched, {"bars", "bars_and_today", "only_today"})

\* C6, amended: the committed snapshot holds, in directory order, a record for
\* exactly the symbols whose download returned a series that still has a bar
\* once a bar dated today is dropped; every symbol is tried.
C6_EveryUsableSeriesRecorded ==
    AfterFullRefresh =>
        /\ Len(fetched) = Len(symbols)
        /\ TickerColumn(df) = TickersAt(symbols, fetched, {"bars", "bars_and_today"})

\* The first download raised and the second symbol is in the snapshot.
C6_Witness ==
    /\ AfterFullRefresh
    /\ Len(symbols) = 2
    /\ fetched[1] = "raised" /\ fetched[2] = "bars"
    /\ Len(df) = 1 /\ df[1].Ticker = symbols[2]

\* C7: in every state every record of the snapshot has high20 >= low20.
C7_HighAtLeastLow ==
    \A i \in 1 .. Len(df) : df[i].High20D >= df[i].Low20D

\* A record whose window lost today's bar, with different extremes.
C7_Witness ==
    /\ AfterFullRefresh
    /\ fetched = <<"bars_and_today">>
    /\ Len(df) = 1 /\ df[1].High20D > df[1].Low20D

\* C8: in every state no record is both in the above-high table and in the
\* below-low table.
C8_BreakoutsDisjoint ==
    \A i \in 1 .. Len(above_high_df(df)) :
        \A j \in 1 .. Len(below_low_df(df)) :
            above_high_df(df)[i] # below_low_df(df)[j]

\* Both tables hold a record.
C8_Witness ==
    /\ above_high_df(df) # <<>>
    /\ below_low_df(df) # <<>>

\* C9: no step of the new high/low check changes the snapshot.
C9_CheckLeavesSnapshot ==
    [][CheckStepTaken => df' = df]_vars

\* A check has reported a new high against a stored high that is still in
\* the snapshot.
C9_Witness ==
    /\ AfterCheck
    /\ \E i \in 1 .. Len(new_high_rows) :
          \E j \in 1 .. Len(df) :
              /\ df[j].Ticker = new_high_rows[i].Ticker
              /\ df[j].High20D = new_high_rows[i].Previous
              /\ new_high_rows[i].Today > df[j].High20D

\* C10, as claimed: no symbol is both in new_high_rows and in new_low_rows.
C10_NewHighsNewLowsDisjoint ==
    \A i \in 1 .. Len(new_high_rows) :
        \A j \in 1 .. Len(new_low_rows) :
            new_high_rows[i].Ticker # new_low_rows[j].Ticker

\* C10, amended: a symbol is in both lists only with a reported high strictly
\* above the stored high20 and a reported low strictly below the stored low20,
\* the stored high20 being at least the stored low20.
C10_SharedSymbolStraddles ==
    \A i \in 1 .. Len(new_high_rows) :
        \A j \in 1 .. Len(new_low_rows) :
            new_high_rows[i].Ticker = new_low_rows[j].Ticker =>
                /\ new_high_rows[i].Today > new_high_rows[i].Previous
                /\ new_high_rows[i].Previous >= new_low_rows[j].Previous
                /\ new_low_rows[j].Previous > new_low_rows[j].Today

\* A check has put one symbol in both lists.
C10_Witness ==
    /\ AfterCheck
    /\ \E i \in 1 .. Len(new_high_rows) :
          \E j \in 1 .. Len(new_low_rows) :
              new_high_rows[i].Ticker = new_low_rows[j].Ticker

\* The n-th smallest element of a set of positions, and the sequence of the
\* values at the positions of the set, in increasing order.
NthOf(S, n) == CHOOSE i \in S : Cardinality({j \in S : j <= i}) = n
InOrder(S, value(_)) == [n \in 1 .. Cardinality(S) |-> value(NthOf(S, n))]

\* The snapshot's record of a symbol (the first, should the symbol be in the
\* snapshot more than once).
InSnapshot(sym) == \E i \in 1 .. Len(df) : df[i].Ticker = sym
StoredRecord(sym) ==
    df[CHOOSE i \in 1 .. Len(df) :
          df[i].Ticker = sym /\ \A j \in 1 .. i - 1 : df[j].Ticker # sym]

\* C11: while the check runs and when it has ended, new_high_rows holds, in
\* loop order, exactly the symbols tried so far that are in the snapshot, whose
\* download gave a bar, and whose latest bar's high is strictly above the
\* high20 that the snapshot stores; each entry carries the symbol, its record's
\* name, that high and the stored high20.  new_low_rows likewise with the low
\* strictly below the stored low20.  No symbol outside the snapshot is listed.
C11_CheckAgainstStoredBaseline ==
    (pc = "check" \/ AfterCheck) =>
        LET tried == {k \in 1 .. Len(checked) :
                        InSnapshot(symbols[k]) /\ checked[k] # <<>>}
            highs == {k \in tried :
                        checked[k][1].High > StoredRecord(symbols[k]).High20D}
            lows == {k \in tried :
                        checked[k][1].Low < StoredRecord(symbols[k]).Low20D}
            high_entry(k) ==
                [Ticker |-> symbols[k], Name |-> StoredRecord(symbols[k]).Name,
                 Today |-> checked[k][1].High,
                 Previous |-> StoredRecord(symbols[k]).High20D]
            low_entry(k) ==
                [Ticker |-> symbols[k], Name |-> StoredRecord(symbols[k]).Name,
                 Today |-> checked[k][1].Low,
                 Previous |-> StoredRecord(symbols[k]).Low20D]
        IN  /\ new_high_rows = InOrder(highs, high_entry)
            /\ new_low_rows = InOrder(lows, low_entry)
            /\ \A i \in 1 .. Len(new_high_rows) : InSnapshot(new_high_rows[i].Ticker)
            /\ \A i \in 1 .. Len(new_low_rows) : InSnapshot(new_low_rows[i].Ticker)

\* After a Quick Refresh that moved a price off the stored high, a check over
\* two symbols has found a new high for the one in the snapshot and has passed
\* over the one that is not in it.
C11_Witness ==
    /\ AfterCheck
    /\ last_quick_refresh # Never
    /\ Len(symbols) = 2 /\ Len(df) = 1
    /\ df[1].CurrentPrice # df[1].High20D
    /\ Len(new_high_rows) = 1
    /\ new_high_rows[1].Previous = df[1].High20D
    /\ \E k \in 1 .. 2 : ~InSnapshot(symbols[k]) /\ checked[k] # <<>>

\* C12, as claimed: whenever no script run is under way, the session state
\* holds no part of a Full Refresh without the rest: while no Full Refresh has
\* stored a snapshot (last_full_refresh is "Never") the symbols and names lists
\* are still empty, and the snapshot's stamp and the data date are set together.
C12_NoPartialFullRefreshVisible ==
    pc = "idle" =>
        /\ (last_full_refresh = Never => symbols = <<>> /\ names = <<>>)
        /\ (last_full_refresh = Never <=> latest_data_date = Unset)

\* The first row of the directory response that carries a symbol.
FirstListing(sym) ==
    CHOOSE k \in 1 .. Len(rows) :
        /\ rows[k].code = Tag(sym)
        /\ \A m \in 1 .. k - 1 : rows[m].code # Tag(sym)

\* C13, as claimed: after a Full Refresh no two records of the snapshot have
\* the same symbol, and the records stand in the order in which the directory
\* response first lists their symbols.
C13_SnapshotKeysUnique ==
    AfterFullRefresh =>
        /\ \A i, j \in 1 .. Len(df) : i # j => df[i].Ticker # df[j].Ticker
        /\ \A i, j \in 1 .. Len(df) :
              i < j => FirstListing(df[i].Ticker) <= FirstListing(df[j].Ticker)

\* The largest of a set of dates; NoDate for no date.
LatestOf(S) == IF S = {} THEN NoDate ELSE CHOOSE d \in S : \A e \in S : e <= d

\* The positions in the symbols list of the symbols that a Full Refresh put in
\* the snapshot, the date of the last bar that the provider returned for one,
\* and the date of the last bar left once a bar dated today is set aside.
Recorded == {k \in 1 .. Len(fetched) : fetched[k] \in {"bars", "bars_and_today"}}
LastReturned(k) == fetched_dates[k][Len(fetched_dates[k])]
LastKept(k) == LatestOf({fetched_dates[k][i] : i \in 1 .. Len(fetched_dates[k])} \ {Today})

\* C14, as claimed: after a Full Refresh latest_data_date is the latest, over
\* the symbols in the new snapshot, of the date of the last bar the provider
\* returned for the symbol, and "N/A" when the snapshot has no symbol.
C14_LatestOfReturnedDates ==
    AfterFullRefresh =>
        latest_data_date = LatestOf({LastReturned(k) : k \in Recorded})

\* C14, amended: after a Full Refresh latest_data_date is the latest, over the
\* symbols in the new snapshot, of the date of the symbol's last bar before
\* today, and "N/A" when the snapshot has no symbol; skipped symbols do not
\* count.
C14_LatestOfKeptDates ==
    AfterFullRefresh =>
        latest_data_date = LatestOf({LastKept(k) : k \in Recorded})

\* The first symbol's window lost today's bar and ends later than the second
\* symbol's window; the data date is the first symbol's.
C14_Witness ==
    /\ AfterFullRefresh
    /\ fetched = <<"bars_and_today", "bars">>
    /\ LastKept(1) > LastKept(2)
    /\ latest_data_date = LastKept(1)

\* The script run has built its two tables.
TablesShown == pc \in {"done", "check"}

RecordAt(i) == df[i]

\* C15: the two tables of a script run are, in snapshot order, exactly the
\* records whose price is a number strictly above high20, and exactly those
\* whose price is a number strictly below low20; a record without a price, or
\* with a price equal to high20 or to low20, is in neither.
C15_BreakoutsOfSnapshot ==
    TablesShown =>
        LET priced == {i \in 1 .. Len(df) : df[i].CurrentPrice # NaN}
        IN  /\ above_high =
                  InOrder({i \in priced : df[i].CurrentPrice > df[i].High20D}, RecordAt)
            /\ below_low =
                  InOrder({i \in priced : df[i].CurrentPrice < df[i].Low20D}, RecordAt)
            /\ \A i \in 1 .. Len(df) :
                  \/ df[i].CurrentPrice = NaN
                  \/ df[i].CurrentPrice = df[i].High20D
                  \/ df[i].CurrentPrice = df[i].Low20D
                  => /\ \A n \in 1 .. Len(above_high) : above_high[n] # df[i]
                     /\ \A n \in 1 .. Len(below_low) : below_low[n] # df[i]

\* After a Quick Refresh the first record has no price, the second is above
\* its high and is the only row of the above-high table.
C15_Witness ==
    /\ AfterQuickRefresh
    /\ Len(df) = 2
    /\ df[1].CurrentPrice = NaN
    /\ df[2].CurrentPrice > df[2].High20D
    /\ above_high = <<df[2]>>
    /\ below_low = <<>>

\* The record that the claim derives from a download: over the bars that are
\* not dated today, the largest rounded high, the smallest rounded low and the
\* rounded close of the last one.
WindowRecord(dl) ==
    LET kept == {i \in 1 .. Len(dl.data) : dl.data[i].date # Today}
        last == CHOOSE i \in kept : \A j \in kept : j <= i
        highs == {Round2(dl.data[i].High) : i \in kept}
        lows == {Round2(dl.data[i].Low) : i \in kept}
    IN  [CurrentPrice |-> Round2(dl.data[last].Close),
         High20D |-> CHOOSE h \in highs : \A g \in highs : g <= h,
         Low20D |-> CHOOSE l \in lows : \A g \in lows : l <= g]

\* C16: a record that analyze appends has the price, high20 and low20 that one
\* download gives over its bars before today; and when a Full Refresh has
\* committed, every record has low20 <= currentPrice <= high20 and the two
\* tables of that script run are empty.
C16_PriceWithinWindow ==
    /\ [][(pc = "analyze" /\ results' # results) =>
            \E dl \in Downloads :
                /\ ~dl.raised
                /\ \E i \in 1 .. Len(dl.data) : dl.data[i].date # Today
                /\ LET new == results'[Len(results')]
                   IN  /\ results' = Append(results, new)
                       /\ new.CurrentPrice = WindowRecord(dl).CurrentPrice
                       /\ new.High20D = WindowRecord(dl).High20D
                       /\ new.Low20D = WindowRecord(dl).Low20D
                       /\ fetched_dates'[Len(fetched_dates')] = DatesOf(dl)]_vars
    /\ [](AfterFullRefresh =>
            /\ \A i \in 1 .. Len(df) :
                  /\ df[i].CurrentPrice # NaN
                  /\ df[i].Low20D <= df[i].CurrentPrice
                  /\ df[i].CurrentPrice <= df[i].High20D
            /\ above_high = <<>>
            /\ below_low = <<>>)

\* Both windows lost today's bar; one record's price is below its high, the
\* other's is above its low.
C16_Witness ==
    /\ AfterFullRefresh
    /\ fetched = <<"bars_and_today", "bars_and_today">>
    /\ Len(df) = 2
    /\ df[1].CurrentPrice < df[1].High20D
    /\ df[2].CurrentPrice > df[2].Low20D

\* C17: last_full_refresh and latest_data_date change only in the step in
\* which a Full Refresh stores its result; last_quick_refresh changes only in
\* the step of a Quick Refresh that found symbols and mapped the prices; no
\* step of the new high/low check and no refused Quick Refresh changes any of
\* the three.
C17_StampsOnlyByOwnOperation ==
    [][/\ (last_full_refresh' # last_full_refresh \/ latest_data_date' # latest_data_date)
            => (op = "full" /\ pc = "analyze" /\ pc' = "done" /\ df' = results)
       /\ last_quick_refresh' # last_quick_refresh
            => (pc = "idle" /\ op' = "quick" /\ symbols # <<>>
                /\ df' = MapPrices(df, price_map'))
       /\ (CheckStepTaken \/ (pc = "idle" /\ op' = "quick_warning"))
            => UNCHANGED <<last_full_refresh, last_quick_refresh, latest_data_date>>]_vars

\* A Full Refresh, then a Quick Refresh, then a check: the check has ended and
\* the two stamps are those of the two refreshes.
C17_Witness ==
    /\ AfterCheck
    /\ last_full_refresh = 1
    /\ last_quick_refresh = 2
    /\ latest_data_date \in Days
    /\ now = 3

\* No script run is under way, or the run has completed its operation.
OperationsCompleted == pc \in {"idle", "done"}

\* C18: once the operations clicked so far have completed, the symbols and
\* names lists are equally long and hold at most TopN entries, every record of
\* the snapshot has its symbol in the symbols list with its name at the same
\* position of the names list, and so the symbols list is not empty when the
\* snapshot is not.
C18_ListsMatchSnapshot ==
    OperationsCompleted =>
        /\ Len(symbols) = Len(names)
        /\ Len(symbols) <= TopN
        /\ \A i \in 1 .. Len(df) :
              \E k \in 1 .. Len(symbols) :
                  symbols[k] = df[i].Ticker /\ names[k] = df[i].Name
        /\ (df # <<>> => symbols # <<>>)

\* The directory listed three companies' rows, the lists stop at TopN, and the
\* snapshot's only record is the second entry of the lists.
C18_Witness ==
    /\ AfterFullRefresh
    /\ Len(rows) = 3
    /\ \A k \in 1 .. 3 : rows[k].name # NoTag /\ rows[k].code # NoTag
    /\ Len(symbols) = TopN /\ Len(names) = TopN
    /\ symbols[1] # symbols[2]
    /\ Len(df) = 1
    /\ df[1].Ticker = symbols[2] /\ df[1].Name = names[2]

====
